---- MODULE Spec2Model ----
(***************************************************************************)
(* Model of gh_autoupdater.py: the update-application protocol of one      *)
(* updater process (main, loop, check_once, _apply_update) and of the      *)
(* detached helper script written by _make_update_bat.                     *)
(*                                                                         *)
(* Python strings are sequences of one-character strings; an Optional[str] *)
(* is a set with at most one element ({} is None).                         *)
(***************************************************************************)
EXTENDS Integers, Sequences, FiniteSets, TLC

\* ------------------------------------------------------------------ bounds
MaxCycles == 2
MaxInterval == 6

\* ------------------------------------------------------- program constants
MinSleep == 5
GraceSeconds == 2

\* ------------------------------------------------------------ Python str
Ws == {" ", "\n", "\t"}

RECURSIVE LStrip(_)
LStrip(s) ==
  IF s = <<>> THEN s
  ELSE IF Head(s) \in Ws THEN LStrip(Tail(s)) ELSE s

RECURSIVE RStrip(_)
RStrip(s) ==
  IF s = <<>> THEN s
  ELSE IF s[Len(s)] \in Ws THEN RStrip(SubSeq(s, 1, Len(s) - 1)) ELSE s

\* str.strip()
Strip(s) == RStrip(LStrip(s))

LowerChar(c) ==
  CASE c = "A" -> "a"
    [] c = "B" -> "b"
    [] c = "C" -> "c"
    [] c = "D" -> "d"
    [] c = "E" -> "e"
    [] c = "F" -> "f"
    [] OTHER -> c

\* str.lower()
Lower(s) == [i \in 1..Len(s) |-> LowerChar(s[i])]

\* Optional[str]
None == {}
Some(s) == {s}
TheStr(o) == CHOOSE s \in o : TRUE
\* Python truthiness of an Optional[str]: None and "" are falsy
Truthy(o) == o # None /\ TheStr(o) # <<>>
\* the idiom  x or None
OrNone(s) == IF s = <<>> THEN None ELSE Some(s)

\* ------------------------------------------------------- manifest payload
\* a JSON member of the manifest object: absent, a string, a number (s is
\* its literal) or null
Absent == [t |-> "absent", s |-> <<>>]
Str(s) == [t |-> "str", s |-> s]
Num(s) == [t |-> "num", s |-> s]
Null == [t |-> "null", s |-> <<>>]

\* str(data.get(key, ""))
PyStr(f) ==
  CASE f.t = "absent" -> <<>>
    [] f.t = "str" -> f.s
    [] f.t = "num" -> f.s
    [] f.t = "null" -> <<"N", "o", "n", "e">>

\* a response body: a JSON object with the three members, or other text
ObjectBody(v, u, h) ==
  [kind |-> "object", text |-> <<"{">>, version |-> v, url |-> u, sha256 |-> h]
TextBody(s) ==
  [kind |-> "text", text |-> s, version |-> Absent, url |-> Absent, sha256 |-> Absent]

StartsWithBrace(s) == s # <<>> /\ Head(s) = "{"

\* "application/json" in (content_type or "").lower()
IsJsonType(content_type) ==
  content_type \in {"application/json", "Application/JSON; charset=utf-8"}

ParseFail == [ok |-> FALSE, ver |-> <<>>, url |-> None, sha |-> None]

\* mutant: the plain-text branch returns the body untrimmed
ParseLatestPayloadNoStrip(body, content_type) ==
  IF IsJsonType(content_type) \/ StartsWithBrace(Strip(body.text))
  THEN IF body.kind = "object"
       THEN [ok |-> TRUE,
             ver |-> Strip(PyStr(body.version)),
             url |-> OrNone(Strip(PyStr(body.url))),
             sha |-> OrNone(Strip(PyStr(body.sha256)))]
       ELSE ParseFail
  ELSE [ok |-> TRUE, ver |-> body.text, url |-> None, sha |-> None]

\* _parse_latest_payload: (remote_version, download_url, sha256), or the
\* exception json.loads / data.get raises on a body that is no JSON object
ParseLatestPayload(body, content_type) ==
  IF IsJsonType(content_type) \/ StartsWithBrace(Strip(body.text))
  THEN IF body.kind = "object"
       THEN [ok |-> TRUE,
             ver |-> Strip(PyStr(body.version)),
             url |-> OrNone(Strip(PyStr(body.url))),
             sha |-> OrNone(Strip(PyStr(body.sha256)))]
       ELSE ParseFail
  ELSE [ok |-> TRUE, ver |-> Strip(body.text), url |-> None, sha |-> None]

\* --------------------------------------------------------------- URLs
\* a URL is the sequence scheme, "://", netloc, then "/" and path segments
UrlNetloc(u) == u[3]
UrlPath(u) == SubSeq(u, 4, Len(u))

RECURSIVE DropLastSegment(_)
\* "/".join(path.split("/")[:-1])
DropLastSegment(p) ==
  IF p = <<>> THEN p
  ELSE IF p[Len(p)] = "/" THEN SubSeq(p, 1, Len(p) - 1)
  ELSE DropLastSegment(SubSeq(p, 1, Len(p) - 1))

\* mutant: the fallback keeps the scheme of the manifest URL
DefaultZipUrlKeepScheme(latest_url, remote_version) ==
  <<latest_url[1], "://", UrlNetloc(latest_url)>> \o DropLastSegment(UrlPath(latest_url))
    \o <<"/", "releases", "/", "fisher_v">> \o remote_version \o <<".zip">>

\* _default_zip_url_from_latest
DefaultZipUrlFromLatest(latest_url, remote_version) ==
  <<"https", "://", UrlNetloc(latest_url)>> \o DropLastSegment(UrlPath(latest_url))
    \o <<"/", "releases", "/", "fisher_v">> \o remote_version \o <<".zip">>

\* ------------------------------------------------------------ artifacts
\* what a download URL can serve: two well-formed archives, an archive with
\* an entry named ../../evil.txt, and a file that is no zip archive
Artifacts == {"zipA", "zipB", "zipEvil", "junk"}

\* _sha256_file: hexdigest() of the file's bytes (lower-case hex)
Sha256File(content) ==
  CASE content = "zipA" -> <<"a", "b">>
    [] content = "zipB" -> <<"c", "d">>
    [] content = "zipEvil" -> <<"a", "d">>
    [] content = "junk" -> <<"e", "f">>
    [] OTHER -> <<"0", "0">>

\* mutant: the digests compared as written, without lower()
DigestMismatchCaseSensitive(got, expect) == got # expect

\* the comparison of _apply_update: got.lower() != expect_sha256.lower()
DigestMismatch(got, expect) == Lower(got) # Lower(expect)

\* ------------------------------------------------------------- inputs
Currents == {<<"1">>, <<"2">>}
Intervals == {-1, 0, 2, MaxInterval}
RestartCmds == {None, Some(<<"app">>)}
LatestUrl == <<"https", "://", "raw.example.com", "/", "org", "/", "latest.json">>
\* a manifest served over plain http from the root of its host
HttpLatestUrl == <<"http", "://", "h", "/", "latest.json">>
LatestUrls == {LatestUrl, HttpLatestUrl}

Responses ==
  { [ct |-> "application/json", body |-> ObjectBody(Str(<<"2">>), Absent, Str(<<"a", "b">>))],
    [ct |-> "application/json", body |-> ObjectBody(Str(<<"2">>), Absent, Str(<<"A", "B", " ">>))],
    [ct |-> "text/plain", body |-> ObjectBody(Str(<<" ", "2">>), Str(<<"u">>), Str(<<"c", "d">>))],
    [ct |-> "Application/JSON; charset=utf-8", body |-> ObjectBody(Str(<<"0">>), Absent, Null)],
    [ct |-> "application/json", body |-> ObjectBody(Str(<<"1">>), Str(<<"u">>), Absent)],
    [ct |-> "application/json", body |-> ObjectBody(Absent, Absent, Str(<<"a", "b">>))],
    [ct |-> "text/plain", body |-> TextBody(<<"1", "\n">>)],
    [ct |-> "text/plain", body |-> TextBody(<<"0">>)],
    [ct |-> "text/plain", body |-> TextBody(<<" ">>)],
    [ct |-> "text/plain", body |-> TextBody(<<"{", "x">>)],
    [ct |-> "application/json", body |-> TextBody(<<"2">>)] }

NoResp == [ct |-> "", body |-> TextBody(<<>>)]

\* ---------------------------------------------------------------- state
VARIABLES
  cfg,            \* argparse namespace: latest_url, current, once, interval, insecure, restart_cmd
  targetExists,   \* os.path.isdir(target_dir) at startup
  requestsOk,     \* whether "import requests" succeeds
  pc,             \* position of the updater process
  exitStatus,     \* exit status of the updater process, -1 while it runs
  cycles,         \* check cycles started
  resp,           \* r of check_once
  remote_version, download_url, sha256,   \* locals of check_once
  tmpdir,         \* tmpdir of _apply_update: index into staging, 0 when none
  staging,        \* the gh_update_* directories ever made by mkdtemp
  target,         \* contents of target_dir
  hpc,            \* position of the helper script (update.bat)
  hdir,           \* the staging directory the helper was generated in
  restarted,      \* whether the helper started restart_cmd
  copyFailed,     \* whether xcopy reported an error
  graceLeft,      \* seconds left of the helper's timeout /t 2
  hsteps,         \* the commands the helper script has run, in order
  steps,          \* the steps the current cycle has performed, in order
  outcome,        \* how the current or last cycle ended
  netEver,        \* whether any HTTP request was ever issued
  waited          \* seconds the last time.sleep of loop suspended the process

vars == <<cfg, targetExists, requestsOk, pc, exitStatus, cycles, resp,
          remote_version, download_url, sha256, tmpdir, staging, target,
          hpc, hdir, restarted, copyFailed, graceLeft, hsteps, steps,
          outcome, netEver, waited>>

cfgVars == <<cfg, targetExists, requestsOk>>
localVars == <<resp, remote_version, download_url, sha256, tmpdir>>
helperVars == <<hpc, hdir, restarted, copyFailed, graceLeft, hsteps>>
clockVars == <<waited>>

\* the process starts in main with the parsed arguments, --latest among urls
StartState(urls) ==
  /\ cfg \in [latest_url : urls, current : Currents, once : BOOLEAN, interval : Intervals,
              insecure : BOOLEAN, restart_cmd : RestartCmds]
  /\ targetExists \in BOOLEAN
  /\ requestsOk \in BOOLEAN
  /\ pc = "main"
  /\ exitStatus = -1
  /\ cycles = 0
  /\ resp = NoResp
  /\ remote_version = <<>>
  /\ download_url = None
  /\ sha256 = None
  /\ tmpdir = 0
  /\ staging = <<>>
  /\ target = "old"
  /\ hpc = "none"
  /\ hdir = 0
  /\ restarted = FALSE
  /\ copyFailed = FALSE
  /\ graceLeft = 0
  /\ hsteps = <<>>
  /\ steps = <<>>
  /\ outcome = "none"
  /\ netEver = FALSE
  /\ waited = 0

Init == StartState({LatestUrl})

\* ------------------------------------------------------- pure decisions
DigitVal(c) == CASE c = "0" -> 0 [] c = "1" -> 1 [] c = "2" -> 2 [] OTHER -> 9

\* mutant: an ordering gate, an older remote version counts as up to date
UpToDateOrOlder(remote, current) ==
  \/ remote = current
  \/ remote # <<>> /\ current # <<>> /\ DigitVal(remote[1]) < DigitVal(current[1])

\* mutant: the gate never finds the installation up to date
UpToDateNever(remote, current) == FALSE

\* the version gate of check_once: remote_version == current
UpToDate(remote, current) == remote = current

\* download_url of check_once after "if not download_url"
ResolveUrl(url, latest_url, remote) ==
  IF ~Truthy(url) THEN Some(DefaultZipUrlFromLatest(latest_url, remote)) ELSE url

\* mutant: the --insecure test inverted
ExpectShaInverted(insecure, sha) == IF insecure THEN sha ELSE None

\* mutant: --insecure ignored
ExpectShaKept(insecure, sha) == sha

\* sha256 of check_once after "if insecure: sha256 = None"
ExpectSha(insecure, sha) == IF insecure THEN None ELSE sha

\* mutant: the interval passed to time.sleep unclamped
SleepSecondsRaw(interval) == interval

\* the argument of time.sleep in loop
SleepSeconds(interval) == IF interval > MinSleep THEN interval ELSE MinSleep

NewStaging == [exists |-> TRUE, zip |-> "none", extracted |-> "none", bat |-> FALSE]

Did(step) == \E i \in 1..Len(steps) : steps[i] = step

\* ------------------------------------------------------ updater process
\* a call of check_once starts with fresh locals
EnterCheck ==
  /\ pc' = "check"
  /\ cycles' = cycles + 1
  /\ steps' = <<>>
  /\ outcome' = "none"
  /\ resp' = NoResp
  /\ remote_version' = <<>>
  /\ download_url' = None
  /\ sha256' = None
  /\ tmpdir' = 0

\* mutant: main without the os.path.isdir test
MainNoDirTest ==
  /\ pc = "main"
  /\ EnterCheck
  /\ UNCHANGED <<cfgVars, exitStatus, staging, target, helperVars, netEver,
                 clockVars>>

\* main: the target directory test, then check_once or loop
Main ==
  /\ pc = "main"
  /\ IF ~targetExists
     THEN /\ pc' = "exited"
          /\ exitStatus' = 1
          /\ UNCHANGED <<cycles, steps, outcome, localVars>>
     ELSE /\ EnterCheck
          /\ UNCHANGED exitStatus
  /\ UNCHANGED <<cfgVars, staging, target, helperVars, netEver, clockVars>>

\* mutant: the result of _need_requests() ignored
NeedRequestsIgnored ==
  /\ pc = "check"
  /\ steps' = Append(steps, "need_requests")
  /\ pc' = "fetch"
  /\ UNCHANGED <<cfgVars, exitStatus, cycles, localVars, staging, target,
                 helperVars, outcome, netEver, clockVars>>

\* check_once: if not _need_requests(): return
NeedRequests ==
  /\ pc = "check"
  /\ steps' = Append(steps, "need_requests")
  /\ IF requestsOk
     THEN pc' = "fetch" /\ UNCHANGED outcome
     ELSE pc' = "return" /\ outcome' = "norequests"
  /\ UNCHANGED <<cfgVars, exitStatus, cycles, localVars, staging, target,
                 helperVars, netEver, clockVars>>

\* r = _http_get(latest_url, timeout=8): a response, or an exception
HttpGet ==
  /\ pc = "fetch"
  /\ steps' = Append(steps, "fetch")
  /\ netEver' = TRUE
  /\ \/ \E r \in Responses : resp' = r /\ pc' = "parse"
     \/ resp' = resp /\ pc' = "except"
  /\ UNCHANGED <<cfgVars, exitStatus, cycles, remote_version, download_url,
                 sha256, tmpdir, staging, target, helperVars, outcome, clockVars>>

\* remote_version, download_url, sha256 = _parse_latest_payload(...)
Parse ==
  /\ pc = "parse"
  /\ steps' = Append(steps, "parse")
  /\ LET p == ParseLatestPayload(resp.body, resp.ct)
     IN IF p.ok
        THEN /\ remote_version' = p.ver
             /\ download_url' = p.url
             /\ sha256' = p.sha
             /\ pc' = "gate"
        ELSE /\ UNCHANGED <<remote_version, download_url, sha256>>
             /\ pc' = "except"
  /\ UNCHANGED <<cfgVars, exitStatus, cycles, resp, tmpdir, staging, target,
                 helperVars, outcome, netEver, clockVars>>

\* mutant: a version is not tried again once an attempt has left a staging
\* directory behind
VersionGateRemembers ==
  /\ pc = "gate"
  /\ steps' = Append(steps, "gate")
  /\ IF remote_version = <<>>
     THEN /\ outcome' = "noversion"
          /\ pc' = "return"
          /\ UNCHANGED <<download_url, sha256>>
     ELSE IF UpToDate(remote_version, cfg.current) \/ staging # <<>>
     THEN /\ outcome' = "uptodate"
          /\ pc' = "return"
          /\ UNCHANGED <<download_url, sha256>>
     ELSE /\ download_url' = ResolveUrl(download_url, cfg.latest_url, remote_version)
          /\ sha256' = ExpectSha(cfg.insecure, sha256)
          /\ pc' = "mkdtemp"
          /\ UNCHANGED outcome
  /\ UNCHANGED <<cfgVars, exitStatus, cycles, resp, remote_version, tmpdir,
                 staging, target, helperVars, netEver, clockVars>>

\* the empty-version test, the version gate, the fallback URL and --insecure
VersionGate ==
  /\ pc = "gate"
  /\ steps' = Append(steps, "gate")
  /\ IF remote_version = <<>>
     THEN /\ outcome' = "noversion"
          /\ pc' = "return"
          /\ UNCHANGED <<download_url, sha256>>
     ELSE IF UpToDate(remote_version, cfg.current)
     THEN /\ outcome' = "uptodate"
          /\ pc' = "return"
          /\ UNCHANGED <<download_url, sha256>>
     ELSE /\ download_url' = ResolveUrl(download_url, cfg.latest_url, remote_version)
          /\ sha256' = ExpectSha(cfg.insecure, sha256)
          /\ pc' = "mkdtemp"
          /\ UNCHANGED outcome
  /\ UNCHANGED <<cfgVars, exitStatus, cycles, resp, remote_version, tmpdir,
                 staging, target, helperVars, netEver, clockVars>>

\* mutant: one fixed staging directory, emptied and used again by every attempt
MkdtempFixedDir ==
  /\ pc = "mkdtemp"
  /\ steps' = Append(steps, "mkdtemp")
  /\ \/ /\ staging' = IF staging = <<>> THEN <<NewStaging>>
                       ELSE [staging EXCEPT ![1] = NewStaging]
        /\ tmpdir' = 1
        /\ pc' = "download"
     \/ /\ UNCHANGED <<staging, tmpdir>>
        /\ pc' = "except"
  /\ UNCHANGED <<cfgVars, exitStatus, cycles, resp, remote_version, download_url,
                 sha256, target, helperVars, outcome, netEver, clockVars>>

\* _apply_update: tmpdir = tempfile.mkdtemp(prefix="gh_update_")
Mkdtemp ==
  /\ pc = "mkdtemp"
  /\ steps' = Append(steps, "mkdtemp")
  /\ \/ /\ staging' = Append(staging, NewStaging)
        /\ tmpdir' = Len(staging) + 1
        /\ pc' = "download"
     \/ /\ UNCHANGED <<staging, tmpdir>>
        /\ pc' = "except"
  /\ UNCHANGED <<cfgVars, exitStatus, cycles, resp, remote_version, download_url,
                 sha256, target, helperVars, outcome, netEver, clockVars>>

\* _download_file(download_url, zip_path): the artifact, or an exception that
\* leaves no file or a truncated one
Download ==
  /\ pc = "download"
  /\ steps' = Append(steps, "download")
  /\ netEver' = TRUE
  /\ \/ \E a \in Artifacts :
          /\ staging' = [staging EXCEPT ![tmpdir].zip = a]
          /\ pc' = "verify"
     \/ \E z \in {"none", "partial"} :
          /\ staging' = [staging EXCEPT ![tmpdir].zip = z]
          /\ pc' = "except"
  /\ UNCHANGED <<cfgVars, exitStatus, cycles, localVars, target, helperVars,
                 outcome, clockVars>>

\* if expect_sha256: got = _sha256_file(zip_path); compare; return on mismatch
Verify ==
  /\ pc = "verify"
  /\ IF Truthy(sha256)
     THEN /\ steps' = Append(steps, "hash")
          /\ \/ IF DigestMismatch(Sha256File(staging[tmpdir].zip), TheStr(sha256))
                THEN outcome' = "mismatch" /\ pc' = "return"
                ELSE UNCHANGED outcome /\ pc' = "extract"
             \/ UNCHANGED outcome /\ pc' = "except"
     ELSE /\ UNCHANGED <<steps, outcome>>
          /\ pc' = "extract"
  /\ UNCHANGED <<cfgVars, exitStatus, cycles, localVars, staging, target,
                 helperVars, netEver, clockVars>>

\* os.makedirs(extract_dir); zipfile.ZipFile(zip_path).extractall(extract_dir)
\* extractall drops the ".." components and leading slashes of an entry name
\* and writes the entry below extract_dir: an escaping entry raises nothing
Extract ==
  /\ pc = "extract"
  /\ steps' = Append(steps, "extract")
  /\ \/ /\ staging[tmpdir].zip # "junk"
        /\ staging' = [staging EXCEPT ![tmpdir].extracted = staging[tmpdir].zip]
        /\ pc' = "makebat"
     \/ /\ staging[tmpdir].zip # "junk"
        /\ staging' = [staging EXCEPT ![tmpdir].extracted = "partial"]
        /\ pc' = "except"
     \/ /\ staging' = [staging EXCEPT ![tmpdir].extracted = "empty"]
        /\ pc' = "except"
  /\ UNCHANGED <<cfgVars, exitStatus, cycles, localVars, target, helperVars,
                 outcome, netEver, clockVars>>

\* bat = _make_update_bat(tmpdir, extract_dir, target_dir, restart_cmd)
MakeUpdateBat ==
  /\ pc = "makebat"
  /\ steps' = Append(steps, "makebat")
  /\ \/ /\ staging' = [staging EXCEPT ![tmpdir].bat = TRUE]
        /\ pc' = "startfile"
     \/ /\ UNCHANGED staging
        /\ pc' = "except"
  /\ UNCHANGED <<cfgVars, exitStatus, cycles, localVars, target, helperVars,
                 outcome, netEver, clockVars>>

\* mutant: _apply_update returns after the launch instead of calling os._exit
StartFileThenReturn ==
  /\ pc = "startfile"
  /\ steps' = Append(steps, "startfile")
  /\ \/ /\ hpc' = "wait"
        /\ hdir' = tmpdir
        /\ graceLeft' = GraceSeconds
        /\ outcome' = "launched"
        /\ pc' = "return"
     \/ /\ UNCHANGED <<hpc, hdir, graceLeft, outcome>>
        /\ pc' = "except"
  /\ UNCHANGED <<cfgVars, exitStatus, cycles, localVars, staging, target,
                 restarted, copyFailed, hsteps, netEver, clockVars>>

\* os.startfile(bat): the helper starts running, or an exception
StartFile ==
  /\ pc = "startfile"
  /\ steps' = Append(steps, "startfile")
  /\ \/ /\ hpc' = "wait"
        /\ hdir' = tmpdir
        /\ graceLeft' = GraceSeconds
        /\ outcome' = "launched"
        /\ pc' = "os_exit"
     \/ /\ UNCHANGED <<hpc, hdir, graceLeft, outcome>>
        /\ pc' = "except"
  /\ UNCHANGED <<cfgVars, exitStatus, cycles, localVars, staging, target,
                 restarted, copyFailed, hsteps, netEver, clockVars>>

\* os._exit(0)
OsExit ==
  /\ pc = "os_exit"
  /\ steps' = Append(steps, "exit")
  /\ pc' = "exited"
  /\ exitStatus' = 0
  /\ UNCHANGED <<cfgVars, cycles, localVars, staging, target, helperVars,
                 outcome, netEver, clockVars>>

\* mutant: only transport errors are caught, any other exception leaves
\* check_once and ends the process with a traceback
ExceptTransportOnly ==
  /\ pc = "except"
  /\ outcome' = "error"
  /\ IF steps[Len(steps)] \in {"fetch", "download"}
     THEN pc' = "return" /\ UNCHANGED exitStatus
     ELSE pc' = "exited" /\ exitStatus' = 1
  /\ UNCHANGED <<cfgVars, cycles, localVars, staging, target, helperVars,
                 steps, netEver, clockVars>>

\* except Exception as e: print(...)
Except ==
  /\ pc = "except"
  /\ outcome' = "error"
  /\ pc' = "return"
  /\ UNCHANGED <<cfgVars, exitStatus, cycles, localVars, staging, target,
                 helperVars, steps, netEver, clockVars>>

\* mutant: loop ends when a cycle ended in an error
ReturnBreakOnError ==
  /\ pc = "return"
  /\ IF cfg.once \/ outcome = "error"
     THEN /\ pc' = "exited"
          /\ exitStatus' = 0
          /\ UNCHANGED clockVars
     ELSE /\ pc' = "sleep"
          /\ UNCHANGED <<exitStatus, clockVars>>
  /\ UNCHANGED <<cfgVars, cycles, localVars, staging, target, helperVars,
                 steps, outcome, netEver>>

\* check_once returns: main returns (--once), or loop goes on to time.sleep
Return ==
  /\ pc = "return"
  /\ IF cfg.once
     THEN /\ pc' = "exited"
          /\ exitStatus' = 0
          /\ UNCHANGED clockVars
     ELSE /\ pc' = "sleep"
          /\ UNCHANGED <<exitStatus, clockVars>>
  /\ UNCHANGED <<cfgVars, cycles, localVars, staging, target, helperVars,
                 steps, outcome, netEver>>

\* time.sleep(max(5, int(interval))) suspends the process for that many
\* seconds, then loop calls check_once again
Sleep ==
  /\ pc = "sleep"
  /\ cycles < MaxCycles
  /\ waited' = SleepSeconds(cfg.interval)
  /\ EnterCheck
  /\ UNCHANGED <<cfgVars, exitStatus, staging, target, helperVars, netEver>>

\* ------------------------------------------------- helper (update.bat)
updaterVars == <<cfgVars, pc, exitStatus, cycles, localVars, steps, outcome,
                 netEver, clockVars>>

\* mutant: the start line written whether or not restart_cmd is set
RestartLineAlways(restart_cmd) == TRUE

\* _make_update_bat: the start "" <restart_cmd> line is written if restart_cmd
RestartLine(restart_cmd) == Truthy(restart_cmd)

\* one second of the helper's timeout /t 2 /nobreak passes
HelperTick ==
  /\ hpc = "wait"
  /\ graceLeft > 0
  /\ graceLeft' = graceLeft - 1
  /\ UNCHANGED <<updaterVars, staging, target, hpc, hdir, restarted,
                 copyFailed, hsteps>>

\* timeout /t 2 /nobreak returns
HelperWait ==
  /\ hpc = "wait"
  /\ graceLeft = 0
  /\ hpc' = "copy"
  /\ hsteps' = Append(hsteps, "wait")
  /\ UNCHANGED <<updaterVars, staging, target, hdir, restarted, copyFailed,
                 graceLeft>>

\* xcopy /E /Y "<extract_dir>\*" "<target_dir>", and the errorlevel report
HelperCopy ==
  /\ hpc = "copy"
  /\ \/ /\ target' = staging[hdir].extracted
        /\ UNCHANGED copyFailed
     \/ /\ target' \in {target, "partial"}
        /\ copyFailed' = TRUE
  /\ hpc' = "restart"
  /\ hsteps' = Append(hsteps, "copy")
  /\ UNCHANGED <<updaterVars, staging, hdir, restarted, graceLeft>>

\* start "" <restart_cmd>, a line of the script only when restart_cmd is set
HelperRestart ==
  /\ hpc = "restart"
  /\ IF RestartLine(cfg.restart_cmd)
     THEN restarted' = TRUE /\ hsteps' = Append(hsteps, "restart")
     ELSE UNCHANGED <<restarted, hsteps>>
  /\ hpc' = "rd"
  /\ UNCHANGED <<updaterVars, staging, target, hdir, copyFailed, graceLeft>>

\* mutant: the script removes the staging directory only after a good copy
HelperRdOnSuccess ==
  /\ hpc = "rd"
  /\ staging' = IF copyFailed THEN staging ELSE [staging EXCEPT ![hdir].exists = FALSE]
  /\ hpc' = "exit"
  /\ hsteps' = Append(hsteps, "rd")
  /\ UNCHANGED <<updaterVars, target, hdir, restarted, copyFailed, graceLeft>>

\* rd /s /q "<tmpdir>"
HelperRd ==
  /\ hpc = "rd"
  /\ staging' = [staging EXCEPT ![hdir].exists = FALSE]
  /\ hpc' = "exit"
  /\ hsteps' = Append(hsteps, "rd")
  /\ UNCHANGED <<updaterVars, target, hdir, restarted, copyFailed, graceLeft>>

\* exit
HelperExit ==
  /\ hpc = "exit"
  /\ hpc' = "done"
  /\ hsteps' = Append(hsteps, "exit")
  /\ UNCHANGED <<updaterVars, staging, target, hdir, restarted, copyFailed,
                 graceLeft>>

Updater ==
  \/ Main \/ NeedRequests \/ HttpGet \/ Parse \/ VersionGate \/ Mkdtemp
  \/ Download \/ Verify \/ Extract \/ MakeUpdateBat \/ StartFile \/ OsExit
  \/ Except \/ Return \/ Sleep

Helper == HelperTick \/ HelperWait \/ HelperCopy \/ HelperRestart \/ HelperRd \/ HelperExit

Next == Updater \/ Helper

Spec == Init /\ [][Next]_vars

\* continuous mode: main has found target_dir and calls loop
LoopInit ==
  /\ Init
  /\ targetExists
  /\ ~cfg.once
  /\ cfg.current = <<"1">>
  /\ cfg.restart_cmd = None

\* the updater is a running thread and the helper a running script: each
\* takes its next step
FairSpec == LoopInit /\ [][Next]_vars /\ WF_vars(Updater) /\ WF_vars(Helper)

\* continuous mode on version 1 with the manifest at either URL
UrlInit ==
  /\ StartState(LatestUrls)
  /\ targetExists
  /\ ~cfg.once
  /\ cfg.current = <<"1">>
  /\ cfg.interval = MaxInterval
  /\ cfg.restart_cmd = None

UrlSpec == UrlInit /\ [][Next]_vars

\* --------------------------------------------- the manifest parser alone
\* the values a member of the manifest object is given
MemberValues ==
  {Absent, Null, Num(<<"2">>), Str(<<>>), Str(<<" ">>), Str(<<" ", "2", "\n">>)}

ContentTypes == {"application/json", "Application/JSON; charset=utf-8", "text/plain", ""}

ParseBodies ==
  {ObjectBody(v, u, h) : v \in MemberValues, u \in MemberValues, h \in MemberValues}
    \cup {TextBody(t) : t \in {<<>>, <<" ">>, <<"2">>, <<" ", "1", "\n">>,
                                <<"{", "x">>, <<" ", "{">>, <<"[", "]">>}}

\* check_once has received a response and is about to parse it
ParseInit ==
  /\ cfg \in [latest_url : {LatestUrl}, current : {<<"1">>}, once : {TRUE}, interval : {MaxInterval},
              insecure : {FALSE}, restart_cmd : {None}]
  /\ targetExists = TRUE
  /\ requestsOk = TRUE
  /\ pc = "parse"
  /\ exitStatus = -1
  /\ cycles = 1
  /\ resp \in [ct : ContentTypes, body : ParseBodies]
  /\ remote_version = <<>>
  /\ download_url = None
  /\ sha256 = None
  /\ tmpdir = 0
  /\ staging = <<>>
  /\ target = "old"
  /\ hpc = "none"
  /\ hdir = 0
  /\ restarted = FALSE
  /\ copyFailed = FALSE
  /\ graceLeft = 0
  /\ hsteps = <<>>
  /\ steps = <<"need_requests", "fetch">>
  /\ outcome = "none"
  /\ netEver = TRUE
  /\ waited = 0

ParseSpec == ParseInit /\ [][Parse]_vars

\* ================================================================ claims
\* what the manifest of the current cycle supplied, read off the response
Manifest == ParseLatestPayload(resp.body, resp.ct)

\* the current cycle has downloaded an artifact into its staging directory
Downloaded == tmpdir # 0 /\ staging[tmpdir].zip \in Artifacts

\* the digests of the downloaded artifact and of the manifest differ,
\* compared without regard to case
HashDiffers ==
  LET got == Sha256File(staging[tmpdir].zip)
      expect == TheStr(Manifest.sha)
  IN \/ Len(got) # Len(expect)
     \/ \E i \in 1..Len(got) : LowerChar(got[i]) # LowerChar(expect[i])

\* the cycle went on to deployment: extraction is the next step or was done
Proceeds == pc = "extract" \/ Did("extract")

\* the Verify step of the cycle raised while hashing
HashingRaised ==
  /\ steps # <<>>
  /\ steps[Len(steps)] = "hash"
  /\ pc = "except" \/ outcome = "error"

\* the manifest supplied a hash, verification is enabled, and the cycle has
\* gone past its integrity check with a digest that does not match
MismatchCase ==
  /\ Downloaded
  /\ pc # "verify"
  /\ Manifest.sha # None
  /\ ~cfg.insecure
  /\ HashDiffers

\* C1: a supplied hash, verification enabled and a digest mismatch: in that
\* cycle nothing is extracted, no helper script is generated or launched, the
\* process does not self-terminate and target_dir is unchanged
C1_MismatchAborts ==
  MismatchCase =>
    /\ ~Did("extract") /\ ~Did("makebat") /\ ~Did("startfile") /\ ~Did("exit")
    /\ staging[tmpdir].extracted = "none"
    /\ ~staging[tmpdir].bat
    /\ hpc = "none"
    /\ target = "old"
    /\ pc \in {"except", "return", "sleep", "exited"}
    /\ pc = "exited" => cfg.once

C1_Witness ==
  /\ MismatchCase
  /\ outcome = "mismatch"
  /\ pc = "sleep"
  /\ staging[tmpdir].zip = "zipB"

\* the manifest supplied a hash and the cycle has gone past its integrity
\* check without an I/O error while hashing
VerifiedCase ==
  /\ Downloaded
  /\ pc # "verify"
  /\ Manifest.sha # None
  /\ ~HashingRaised

\* C3 as stated: with a supplied hash, deployment proceeds if and only if
\* skip_verification is false and the digests agree case-insensitively
C3_Original ==
  VerifiedCase => (Proceeds <=> (~cfg.insecure /\ ~HashDiffers))

\* C3 amended: with a supplied hash, and unless reading the file for hashing
\* raised, deployment proceeds if and only if skip_verification is true or the
\* digests agree case-insensitively; otherwise the cycle ends as a mismatch
\* with nothing extracted, no helper and target_dir unmodified
C3_ProceedsIff ==
  VerifiedCase =>
    /\ Proceeds <=> (cfg.insecure \/ ~HashDiffers)
    /\ ~Proceeds =>
         /\ outcome = "mismatch"
         /\ staging[tmpdir].extracted = "none"
         /\ hpc = "none"
         /\ target = "old"

C3_Witness ==
  /\ VerifiedCase
  /\ ~cfg.insecure
  /\ TheStr(Manifest.sha) = <<"A", "B">>
  /\ staging[tmpdir].zip = "zipA"
  /\ hpc = "done"
  /\ target = "zipA"

\* skip_verification is true or the manifest supplied no hash, and the cycle
\* has downloaded its artifact and gone past the integrity check
BypassCase ==
  /\ Downloaded
  /\ pc # "verify"
  /\ cfg.insecure \/ Manifest.sha = None

\* C4: with skip_verification true, or no hash in the manifest, a cycle that
\* downloaded its artifact computes and compares no digest and goes on to
\* extraction and the helper launch, whatever the manifest's hash says
C4_BypassProceeds ==
  BypassCase =>
    /\ ~Did("hash")
    /\ outcome # "mismatch"
    /\ Proceeds

C4_Witness ==
  /\ BypassCase
  /\ cfg.insecure
  /\ Manifest.sha # None
  /\ HashDiffers
  /\ outcome = "launched"
  /\ pc = "exited"

\* C2 as stated: the updater never writes into target_dir; only the helper's
\* copy does, and the copy runs only after the updater process has exited
C2_Original ==
  [][ /\ target' # target => hpc = "copy" /\ hpc' = "restart"
      /\ (hpc = "copy" /\ hpc' = "restart") => pc = "exited" ]_vars

\* C5: an error at any step of a cycle is caught in check_once: the process
\* does not end because of it, no step is performed twice in the cycle, and
\* in continuous mode the loop sleeps and can start the next cycle
C5_ErrorsCaught ==
  /\ \A i, j \in 1..Len(steps) : steps[i] = steps[j] => i = j
  /\ pc = "except" => exitStatus = -1
  /\ outcome = "error" =>
       /\ pc \in {"return", "sleep", "exited"}
       /\ pc = "exited" => cfg.once /\ exitStatus = 0
       /\ pc # "exited" => exitStatus = -1
       /\ (pc = "sleep" /\ cycles < MaxCycles) => ENABLED Sleep

C5_Witness ==
  /\ cycles = 2
  /\ pc = "fetch"
  /\ staging # <<>>
  /\ staging[1].bat
  /\ hpc = "none"

\* C6 as stated: without the requests dependency the process terminates at
\* startup, before any check cycle runs
C6_Original ==
  ~requestsOk =>
    /\ cycles = 0
    /\ pc \in {"main", "exited"}
    /\ pc = "exited" => exitStatus # 0

\* C6 amended: without the requests dependency every check cycle ends at
\* once, with no network request and nothing staged, and the process is not
\* terminated by it: the loop sleeps and polls again, a single-shot run
\* returns with status 0
C6_PerCycle ==
  ~requestsOk =>
    /\ ~netEver
    /\ staging = <<>>
    /\ Len(steps) <= 1
    /\ outcome \in {"none", "norequests"}
    /\ pc \in {"main", "check", "return", "sleep", "exited"}
    /\ pc = "exited" =>
         \/ ~targetExists /\ exitStatus = 1
         \/ cfg.once /\ exitStatus = 0 /\ outcome = "norequests"
    /\ (pc = "sleep" /\ cycles < MaxCycles) => ENABLED Sleep

C6_Witness ==
  /\ ~requestsOk
  /\ ~cfg.once
  /\ cycles = 2
  /\ outcome = "norequests"
  /\ pc = "sleep"

\* the version gate was passed towards the download
PastGate == pc = "mkdtemp" \/ Did("mkdtemp")

\* C7 as stated: a cycle ends with no update (no staging area, no download)
\* if and only if remote_version equals current_version
C7_Original ==
  Did("gate") => (~PastGate <=> remote_version = cfg.current)

\* C7 amended: for a non-empty remote_version the cycle ends with no update
\* if and only if remote_version equals current_version, an older remote
\* version included; an empty remote_version ends the cycle without a
\* download whatever current_version is
C7_GateIff ==
  Did("gate") =>
    /\ ~PastGate <=> (remote_version = <<>> \/ remote_version = cfg.current)
    /\ ~PastGate => tmpdir = 0 /\ ~Did("download") /\ hpc = "none"
    /\ remote_version # <<>> =>
         ((outcome = "uptodate") <=> (remote_version = cfg.current))

C7_Witness ==
  /\ Did("gate")
  /\ remote_version = <<"0">>
  /\ cfg.current = <<"1">>
  /\ Did("download")
  /\ Downloaded

\* C8: a target directory missing at startup: the process exits with a
\* non-zero status and no network request is ever issued, in both modes
C8_NoNetworkBeforeExit ==
  ~targetExists =>
    /\ ~netEver
    /\ cycles = 0
    /\ steps = <<>>
    /\ pc \in {"main", "exited"}
    /\ pc = "exited" => exitStatus = 1

C8_Witness ==
  /\ ~targetExists
  /\ ~cfg.once
  /\ requestsOk
  /\ pc = "exited"
  /\ exitStatus = 1

\* C9: in continuous mode the suspension between two cycles is max(5, n)
\* seconds for every configured interval n, so never less than 5 seconds
C9_SleepFloor ==
  LET want == IF cfg.interval < 5 THEN 5 ELSE cfg.interval
  IN cycles >= 2 => waited = want /\ waited >= 5

C9_Witness ==
  /\ cfg.interval = 2
  /\ cycles = 2
  /\ pc = "check"
  /\ waited = 5

\* C10: in continuous mode the loop does not stop by itself: the process ends
\* from inside only by os._exit after a helper launch, and after every cycle
\* that returns another cycle eventually starts
C10_NeverStops ==
  /\ [](pc = "exited" =>
          Did("exit") /\ outcome = "launched" /\ exitStatus = 0)
  /\ \A c \in 1..(MaxCycles - 1) :
       (~cfg.once /\ cycles = c /\ pc = "return") ~> (cycles = c + 1 /\ pc = "check")

C10_Witness ==
  /\ ~cfg.once
  /\ cycles = MaxCycles
  /\ pc = "check"
  /\ staging # <<>>
  /\ staging[1].zip = "zipB"
  /\ staging[1].extracted = "none"

\* C11: the helper script runs, in this order, the grace wait, the recursive
\* copy into target_dir, the start of restart_command when and only when one
\* is configured, the deletion of the staging root and exit; a copy error
\* does not keep it from running the commands after the copy
C11_HelperOrder ==
  LET full == IF cfg.restart_cmd # None /\ TheStr(cfg.restart_cmd) # <<>>
              THEN <<"wait", "copy", "restart", "rd", "exit">>
              ELSE <<"wait", "copy", "rd", "exit">>
  IN /\ Len(hsteps) <= Len(full)
     /\ hsteps = SubSeq(full, 1, Len(hsteps))
     /\ hpc = "done" => hsteps = full
     /\ restarted => cfg.restart_cmd # None
     /\ (copyFailed /\ hpc = "done") => hsteps = full /\ ~staging[hdir].exists

C11_Witness ==
  /\ hpc = "done"
  /\ copyFailed
  /\ restarted
  /\ hsteps = <<"wait", "copy", "restart", "rd", "exit">>

\* C12: extracting an archive with an entry whose path escapes the extraction
\* directory fails with an extraction error that ends the cycle: no helper
\* script is generated or launched
C12_Original ==
  (Downloaded /\ staging[tmpdir].zip = "zipEvil" /\ Did("extract")) =>
    /\ pc \in {"except", "return", "sleep", "exited"}
    /\ ~Did("makebat")
    /\ ~staging[tmpdir].bat
    /\ hpc = "none"
    /\ target = "old"

\* the response's body is a JSON object and has been parsed as one
ParsedObject == resp.body.kind = "object" /\ pc = "gate"

\* what the claim C13 gives for a member: its trimmed value when it is a
\* string, nothing when it is missing, empty or no string
MemberAsClaimed(f) == IF f.t = "str" THEN Strip(f.s) ELSE <<>>

\* C13: from a body parsed as a structured object, version, url and sha256
\* are each the member's trimmed string value when it is a string, and empty
\* (version) or absent (url, sha256) when it is missing, empty or no string
C13_Original ==
  ParsedObject =>
    /\ remote_version = MemberAsClaimed(resp.body.version)
    /\ download_url = OrNone(MemberAsClaimed(resp.body.url))
    /\ sha256 = OrNone(MemberAsClaimed(resp.body.sha256))

\* the response's body is no JSON object and the parse step has been taken
ParsedText == resp.body.kind = "text" /\ pc # "parse"

\* the body is neither declared as JSON nor does its trimmed text start
\* with an opening brace
PlainText ==
  /\ resp.ct \in {"text/plain", ""}
  /\ \A i \in 1..Len(resp.body.text) :
       resp.body.text[i] = "{" => \E j \in 1..(i - 1) : resp.body.text[j] \notin Ws

\* C14 as stated: for every body that is no structured object, whatever the
\* declared content type, parsing succeeds with the trimmed body as version
\* and url and sha256 absent
C14_Original ==
  ParsedText =>
    /\ pc = "gate"
    /\ remote_version = Strip(resp.body.text)
    /\ download_url = None
    /\ sha256 = None

\* C14 amended: for every body that is no structured object, is not declared
\* as JSON and does not start with an opening brace after trimming, parsing
\* succeeds with the trimmed body as version and url and sha256 absent; a
\* body that is no object but is declared as JSON, or starts with a brace,
\* makes parsing raise and the cycle ends as an error
C14_PlainText ==
  ParsedText =>
    IF PlainText
    THEN /\ pc = "gate"
         /\ remote_version = Strip(resp.body.text)
         /\ Len(remote_version) <= Len(resp.body.text)
         /\ remote_version # <<>> =>
              remote_version[1] \notin Ws /\ remote_version[Len(remote_version)] \notin Ws
         /\ download_url = None
         /\ sha256 = None
    ELSE /\ pc = "except"
         /\ remote_version = <<>>

C14_Witness ==
  /\ ParsedText
  /\ PlainText
  /\ resp.body.text = <<" ", "1", "\n">>
  /\ remote_version = <<"1">>
  /\ pc = "gate"

\* the fallback URL the claim C15 gives for a manifest URL and a version
FallbackAsClaimed(latest_url, version) ==
  IF latest_url = LatestUrl
  THEN <<"https", "://", "raw.example.com", "/", "org", "/", "releases", "/", "fisher_v">>
         \o version \o <<".zip">>
  ELSE <<"https", "://", "h", "/", "releases", "/", "fisher_v">> \o version \o <<".zip">>

\* C15: in a cycle that passes the version gate the URL requested is the
\* manifest's url verbatim when the manifest supplies a non-empty one, and
\* otherwise, and only then, the https fallback built from the manifest
\* URL's host, its path without the last segment, and the version
C15_RequestedUrl ==
  PastGate =>
    IF Manifest.url # None /\ TheStr(Manifest.url) # <<>>
    THEN download_url = Manifest.url
    ELSE download_url = Some(FallbackAsClaimed(cfg.latest_url, remote_version))

C15_Witness ==
  /\ Did("download")
  /\ cfg.latest_url = HttpLatestUrl
  /\ Manifest.url = None
  /\ download_url = Some(<<"https", "://", "h", "/", "releases", "/", "fisher_v", "2", ".zip">>)

\* the steps of a cycle in the order of check_once and _apply_update, with
\* and without the hashing that only an expected digest causes
FullOrder ==
  <<"need_requests", "fetch", "parse", "gate", "mkdtemp", "download", "hash",
    "extract", "makebat", "startfile", "exit">>
NoHashOrder ==
  <<"need_requests", "fetch", "parse", "gate", "mkdtemp", "download",
    "extract", "makebat", "startfile", "exit">>

IsPrefix(s, t) == Len(s) <= Len(t) /\ s = SubSeq(t, 1, Len(s))

\* the cycle stops before the staging area: the fetch raised, or the parsed
\* version is empty or equals the current one
StopsEarly ==
  \/ Did("fetch") /\ pc # "parse" /\ resp = NoResp
  \/ Did("gate") /\ (remote_version = <<>> \/ remote_version = cfg.current)

\* C16: the steps of a cycle occur only in the order fetch, parse, gate,
\* staging area, download, integrity check, extraction, script generation,
\* launch, exit; a step occurs only after every earlier step succeeded; no
\* staging area and no download when the fetch fails, the version is empty
\* or the version equals the current one
C16_StepOrder ==
  /\ IsPrefix(steps, FullOrder) \/ IsPrefix(steps, NoHashOrder)
  /\ Did("parse") => resp \in Responses
  /\ Did("gate") => Manifest.ok
  /\ Did("mkdtemp") => remote_version # <<>> /\ remote_version # cfg.current
  /\ Did("download") => tmpdir # 0
  /\ (Did("hash") \/ Did("extract")) => Downloaded
  /\ (Did("hash") /\ Did("extract")) => ~HashDiffers
  /\ Did("makebat") => staging[tmpdir].extracted = staging[tmpdir].zip
  /\ Did("startfile") => staging[tmpdir].bat
  /\ Did("exit") => outcome = "launched" /\ hpc # "none"
  /\ StopsEarly => tmpdir = 0 /\ ~Did("mkdtemp") /\ ~Did("download")

C16_Witness ==
  /\ steps = FullOrder
  /\ pc = "exited"
  /\ cycles = 2

\* one step as the staging directories see it: the directories of earlier
\* attempts are left as they are, a directory is created only as a new one
\* after all that exist, the attempt writes into its own directory only,
\* and only the launched helper script removes a directory
StagingStep ==
  /\ Len(staging') >= Len(staging)
  /\ \A i \in 1..Len(staging) : i # tmpdir => staging'[i] = staging[i]
  /\ tmpdir' \notin {0, tmpdir} =>
       /\ tmpdir' = Len(staging) + 1
       /\ Len(staging') = Len(staging) + 1
       /\ staging'[tmpdir'] = NewStaging
  /\ Len(staging') > Len(staging) => pc = "mkdtemp" /\ tmpdir' = Len(staging')
  /\ \A i \in 1..Len(staging) :
       staging'[i] # staging[i] =>
         \/ pc \in {"download", "extract", "makebat"} /\ staging'[i].exists
         \/ hpc = "rd" /\ i = hdir /\ pc \in {"os_exit", "exited"}

\* the attempt of the current cycle has failed after its staging directory
\* was made
AttemptFailed ==
  /\ tmpdir # 0
  /\ pc \in {"except", "return", "sleep"} \/ (pc = "exited" /\ hpc = "none")

\* C17: an attempt that passes the gate makes a new staging directory,
\* distinct from those of earlier attempts; the updater never deletes, reuses
\* or writes into an earlier attempt's directory; after a failed download,
\* hash mismatch, failed extraction or failed launch the attempt's directory
\* still exists with what was written to it
C17_StagingKept ==
  /\ [][StagingStep]_vars
  /\ [](AttemptFailed => \A i \in 1..Len(staging) : staging[i].exists)
  /\ []((pc \in {"download", "verify", "extract", "makebat", "startfile"}) =>
          (tmpdir = Len(staging) /\ staging[tmpdir].exists))

C17_Witness ==
  /\ Len(staging) = 2
  /\ tmpdir = 2
  /\ staging[1] = [exists |-> TRUE, zip |-> "partial", extracted |-> "none", bat |-> FALSE]
  /\ staging[2].exists
  /\ staging[2].zip = "zipB"
  /\ outcome = "mismatch"
  /\ pc = "sleep"

\* the helper script has run its copy step
CopyRan == \E i \in 1..Len(hsteps) : hsteps[i] = "copy"

\* C18 as stated: a staging directory is destroyed only after the copy into
\* target_dir has completed, and a failed copy inside the helper leaves it
\* behind
C18_Original ==
  \A i \in 1..Len(staging) :
    ~staging[i].exists => (i = hdir /\ CopyRan /\ ~copyFailed)

\* C18 amended: the helper destroys the staging directory only after its
\* copy step has run, and does so whether the copy succeeded or failed; the
\* directory is left behind when the attempt fails in the updater process,
\* where no helper runs
C18_RdAfterCopy ==
  /\ \A i \in 1..Len(staging) :
       ~staging[i].exists =>
         /\ i = hdir
         /\ CopyRan
         /\ hpc \in {"exit", "done"}
         /\ ~copyFailed => target = staging[i].extracted
  /\ hpc = "none" => \A i \in 1..Len(staging) : staging[i].exists
  /\ hpc \in {"exit", "done"} => ~staging[hdir].exists

C18_Witness ==
  /\ hpc = "done"
  /\ copyFailed
  /\ target = "partial"
  /\ ~staging[hdir].exists

\* the process has ended itself with os._exit
SelfTerminated == Did("exit")

\* the launch of the helper script failed in the current cycle
LaunchFailed == Did("startfile") /\ hpc = "none"

\* a helper script, once launched, is the only one: the updater takes no
\* step but its exit, and starts no cycle, request or sleep
AfterLaunchStep ==
  /\ (hpc = "none" /\ hpc' # "none") =>
       /\ pc = "startfile" /\ pc' = "os_exit"
       /\ hpc' = "wait" /\ hdir' = tmpdir /\ staging[tmpdir].bat
  /\ hpc # "none" =>
       /\ hpc' # "none" /\ hdir' = hdir
       /\ steps' = steps \/ (pc = "os_exit" /\ steps' = Append(steps, "exit"))
       /\ cycles' = cycles /\ waited' = waited /\ netEver' = netEver
       /\ Len(staging') = Len(staging)

\* C19: the updater ends itself, with status 0 through os._exit, only right
\* after a helper script of the current attempt was generated and launched;
\* so at most one helper is launched in a process lifetime, no fetch,
\* download or sleep follows a launch, and a failed launch leaves the
\* process running with target_dir unchanged
C19_ExitOnlyAfterLaunch ==
  /\ [][AfterLaunchStep]_vars
  /\ [](hpc # "none" <=> pc \in {"os_exit", "exited"} /\ outcome = "launched")
  /\ [](pc = "os_exit" => steps[Len(steps)] = "startfile")
  /\ [](SelfTerminated =>
          /\ pc = "exited" /\ exitStatus = 0
          /\ steps[Len(steps) - 1] = "startfile"
          /\ hdir = tmpdir /\ staging[tmpdir].bat)
  /\ [](LaunchFailed =>
          /\ ~SelfTerminated
          /\ target = "old"
          /\ pc \in {"except", "return", "sleep"} \/ (pc = "exited" /\ cfg.once))

\* the launch failed in the first cycle and succeeded in the second
C19_Witness ==
  /\ SelfTerminated
  /\ exitStatus = 0
  /\ cycles = 2
  /\ Len(staging) = 2
  /\ staging[1].bat
  /\ hdir = 2
  /\ hpc = "done"

\* a call of check_once starts with nothing of the earlier cycles
FreshLocals ==
  /\ steps = <<>>
  /\ outcome = "none"
  /\ resp = NoResp
  /\ remote_version = <<>>
  /\ download_url = None
  /\ sha256 = None
  /\ tmpdir = 0

\* one step as the cycles see it: the configuration stays, a new cycle
\* starts fresh and keeps the directories there are, the gate decides on
\* this cycle's version and the current version alone, and a passing
\* attempt makes one more directory and requests the download again
CycleStep ==
  /\ cfg' = cfg
  /\ targetExists' = targetExists
  /\ cycles' # cycles =>
       /\ cycles' = cycles + 1
       /\ pc' = "check"
       /\ FreshLocals'
       /\ staging' = staging
  /\ pc = "gate" =>
       (pc' = "mkdtemp" <=> (remote_version # <<>> /\ remote_version # cfg.current))
  /\ (pc = "mkdtemp" /\ pc' = "download") => staging' = Append(staging, NewStaging)
  /\ pc = "download" =>
       /\ steps' = Append(steps, "download")
       /\ netEver'
       /\ staging[tmpdir].zip = "none"

\* C20: the configuration never changes and no outcome of an earlier cycle
\* is remembered: while the manifest announces the same differing version
\* and the attempt fails after the gate, every cycle fetches again, makes a
\* new staging directory and downloads again, so the leftover directories
\* grow by one per failed attempt
C20_NothingRemembered ==
  /\ [][CycleStep]_vars
  /\ [](pc = "check" => FreshLocals)
  /\ [](Len(staging) <= cycles)
  /\ [](hpc = "none" => \A i \in 1..Len(staging) : staging[i].exists)

\* two cycles in continuous mode on the same manifest: both attempts
\* downloaded the same artifact, both ended in a hash mismatch, and both
\* staging directories are left
C20_Witness ==
  /\ ~cfg.once
  /\ cycles = 2
  /\ Len(staging) = 2
  /\ staging[1] = [exists |-> TRUE, zip |-> "zipB", extracted |-> "none", bat |-> FALSE]
  /\ staging[2] = staging[1]
  /\ remote_version = <<"2">>
  /\ sha256 = Some(<<"a", "b">>)
  /\ outcome = "mismatch"
  /\ pc = "sleep"

====
